---- MODULE Spec2Model ----
(***************************************************************************)
(* Player-control core of bevy-character-starter (src/src/main.rs).        *)
(*                                                                         *)
(* One frame of the Bevy app is: the window backend forwards the input of  *)
(* the frame (key events, MouseMotion events), the event buffers are       *)
(* rotated, ButtonInput<KeyCode> is refreshed, and then the four Update    *)
(* systems run once each in any order that respects the one ordering edge  *)
(* the app declares, (player_rotation, update_player).chain().             *)
(*                                                                         *)
(* Numbers are f32 in the source; here they are fixed-point integers with  *)
(* SCALE units per 1.0 (angles: SCALE units per radian).                   *)
(***************************************************************************)
EXTENDS Integers, Sequences, FiniteSets, TLC

VARIABLES
    locked,          \* MouseLocked.0
    locked_changed,  \* locked.is_changed() as mouse_lock would see it
    grab_mode,       \* window.cursor.grab_mode
    cursor_visible,  \* window.cursor.visible
    player_yaw,      \* Player Transform.rotation, as the angle about world Y
    player_camera,   \* PlayerCamera.0, the pitch accumulator
    camera_rotation, \* camera Transform.rotation, as the angle about local X
    pressed,         \* ButtonInput<KeyCode>: keys held
    just_pressed,    \* ButtonInput<KeyCode>: keys with a press edge this frame
    events_a,        \* Events<MouseMotion>: the older buffer
    events_b,        \* Events<MouseMotion>: the newer buffer
    er_motion,       \* EventReader<MouseMotion> of player_rotation: how many
                     \* of the buffered events (events_a \o events_b) it has read
    basis,           \* the walk basis the TnuaController holds
    basis_calls,     \* controller.basis(..) calls made in the current frame
    jump,            \* the action fed to the controller in the current frame
    direction,       \* update_player: the raw direction built from the keys
    applied,         \* player_rotation: the events it folded in the current frame
    toggles,         \* history: the states before the last toggles
    cursor_writes,   \* writes of mouse_lock to window.cursor in the current frame
    last_synced,     \* MouseLocked.0 as of the last run of mouse_lock
    should_update,   \* the event registry is Ready (not Waiting) for an update
    ran,             \* Update systems that have run in the current frame
    frame            \* frames started

vars == <<locked, locked_changed, grab_mode, cursor_visible, player_yaw,
          player_camera, camera_rotation, pressed, just_pressed, events_a,
          events_b, er_motion, basis, basis_calls, jump, direction, applied,
          toggles, cursor_writes, last_synced, should_update, ran, frame>>

---------------------------------------------------------------------------
(* Bounds of the model *)

MaxFrames == 3

(* Pointer deltas, in device units *)
DX == {-100, 0, 100}
DY == {-400, 0, 100, 400}

(* The MouseMotion events (dx, dy) of one frame, in the runs: none; a pure
   yaw motion; one that overshoots the lower pitch bound; one that
   overshoots the upper bound followed by an opposite one *)
MotionSeqs == { <<>>,
                << <<100, 0>> >>,
                << <<100, 400>> >>,
                << <<-100, -400>>, <<0, 100>> >> }

---------------------------------------------------------------------------
(* Constants of the program *)

SCALE == 10000            \* fixed-point units per 1.0
SENS == 50                \* 0.005
HALF_PI == 15708          \* PI / 2.0
TARGET_SPEED == 10        \* 10.0, a plain factor
FLOAT_HEIGHT == 15000     \* 1.5
JUMP_HEIGHT == 40000      \* 4.0
SHORTEN_EXTRA_GRAVITY == 0

Keys == {"KeyW", "KeyS", "KeyA", "KeyD", "Space", "Escape"}

(* The key sets the keyboard is in at the start of a frame, in the runs *)
KeySets == { {}, {"Escape"}, {"KeyW", "Space"}, {"KeyW", "KeyD", "Escape"},
             {"KeyW", "KeyS", "KeyA", "Space"} }

(* The keys that get a press edge in a frame beyond those newly held at its
   end: a key tapped within the frame, or released and pressed again. Only
   the edge of Escape is read (keyboard.just_pressed, line 133). *)
EdgeSets == { {}, {"Escape"} }

Systems == {"player_rotation", "update_player", "toggle_mouse_lock", "mouse_lock"}

BeforeUnchained == {}

(* Ordering edges of the Update schedule: (player_rotation, update_player).chain() *)
Before == { <<"player_rotation", "update_player">> }

NoBasis == [kind |-> "none"]
NoAction == [kind |-> "none"]

---------------------------------------------------------------------------
(* Arithmetic helpers *)

(* Division truncating toward zero *)
Div(a, b) == IF a >= 0 THEN a \div b ELSE -((-a) \div b)

RECURSIVE SqrtIter(_, _)
SqrtIter(n, r) ==
    LET next == (r + n \div r) \div 2
    IN IF next >= r THEN r ELSE SqrtIter(n, next)

(* Integer square root *)
Sqrt(n) == IF n = 0 THEN 0 ELSE SqrtIter(n, n)

(* sin of an angle in [-HALF_PI, HALF_PI], by its Taylor series *)
SinSeries(x) ==
    LET x2 == (x * x) \div SCALE
        t3 == Div(-(x  * x2), 6 * SCALE)
        t5 == Div(-(t3 * x2), 20 * SCALE)
        t7 == Div(-(t5 * x2), 42 * SCALE)
        t9 == Div(-(t7 * x2), 72 * SCALE)
    IN x + t3 + t5 + t7 + t9

Sin(a) ==
    LET m == a % (4 * HALF_PI)                        \* [0, 2 pi)
        r == IF m > 2 * HALF_PI THEN m - 4 * HALF_PI ELSE m     \* (-pi, pi]
        f == IF r > HALF_PI THEN 2 * HALF_PI - r
             ELSE IF r < -HALF_PI THEN -2 * HALF_PI - r
             ELSE r
    IN SinSeries(f)

Cos(a) == Sin(a + HALF_PI)

ClampUpperOnly(x, lo, hi) == IF x > hi THEN hi ELSE x

(* f32::clamp *)
Clamp(x, lo, hi) == IF x < lo THEN lo ELSE IF x > hi THEN hi ELSE x

---------------------------------------------------------------------------
(* Look Controller: one MouseMotion event *)

(* Transform::rotate_y(angle): compose a rotation about world Y *)
RotateY(yaw, angle) == yaw + angle

(* Quat::from_rotation_x(angle), as the angle about local X *)
FromRotationX(angle) == angle

ApplyMotionCoupled(look, ev) ==
    LET yaw   == RotateY(look.yaw, (-(ev.dx + ev.dy)) * SENS)
        pitch == Clamp(look.pitch - ev.dy * SENS, -HALF_PI, HALF_PI)
    IN [yaw |-> yaw, pitch |-> pitch, rotation |-> FromRotationX(pitch)]

ApplyMotionComposed(look, ev) ==
    LET yaw   == RotateY(look.yaw, (-ev.dx) * SENS)
        pitch == Clamp(look.pitch - ev.dy * SENS, -HALF_PI, HALF_PI)
    IN [yaw |-> yaw, pitch |-> pitch,
        rotation |-> look.rotation + FromRotationX((-ev.dy) * SENS)]

(* The body of the loop of player_rotation, for one event *)
ApplyMotion(look, ev) ==
    LET yaw   == RotateY(look.yaw, (-ev.dx) * SENS)
        pitch == Clamp(look.pitch - ev.dy * SENS, -HALF_PI, HALF_PI)
    IN [yaw |-> yaw, pitch |-> pitch, rotation |-> FromRotationX(pitch)]

RECURSIVE SumMotion(_)
SumMotion(evs) ==
    IF evs = <<>> THEN [dx |-> 0, dy |-> 0, stale |-> FALSE]
    ELSE LET rest == SumMotion(Tail(evs))
         IN [dx |-> Head(evs).dx + rest.dx, dy |-> Head(evs).dy + rest.dy,
             stale |-> FALSE]

FoldMotionSummed(look, evs) ==
    IF evs = <<>> THEN look ELSE ApplyMotion(look, SumMotion(evs))

(* for ev in er_motion.read() { .. }: the events in arrival order *)
RECURSIVE FoldMotion(_, _)
FoldMotion(look, evs) ==
    IF evs = <<>> THEN look
    ELSE FoldMotion(ApplyMotion(look, Head(evs)), Tail(evs))

Look == [yaw |-> player_yaw, pitch |-> player_camera, rotation |-> camera_rotation]

(* The events er_motion.read() yields: those buffered and not read yet *)
Unread == SubSeq(events_a \o events_b, er_motion + 1,
                 Len(events_a) + Len(events_b))

---------------------------------------------------------------------------
(* Locomotion Controller *)

VSub(u, v) == <<u[1] - v[1], u[2] - v[2], u[3] - v[3]>>
VAdd(u, v) == <<u[1] + v[1], u[2] + v[2], u[3] + v[3]>>
VEC_X == <<1, 0, 0>>
VEC_Z == <<0, 0, 1>>
VEC_ZERO == <<0, 0, 0>>

RawDirectionAssign(keys) ==
    LET d0 == VEC_ZERO
        d1 == IF "KeyW" \in keys THEN VSub(VEC_ZERO, VEC_Z) ELSE d0
        d2 == IF "KeyS" \in keys THEN VEC_Z ELSE d1
        d3 == IF "KeyA" \in keys THEN VSub(d2, VEC_X) ELSE d2
        d4 == IF "KeyD" \in keys THEN VAdd(d3, VEC_X) ELSE d3
    IN d4

(* The raw direction in player-local axes, built key by key *)
RawDirection(keys) ==
    LET d0 == VEC_ZERO
        d1 == IF "KeyW" \in keys THEN VSub(d0, VEC_Z) ELSE d0
        d2 == IF "KeyS" \in keys THEN VAdd(d1, VEC_Z) ELSE d1
        d3 == IF "KeyA" \in keys THEN VSub(d2, VEC_X) ELSE d2
        d4 == IF "KeyD" \in keys THEN VAdd(d3, VEC_X) ELSE d3
    IN d4

(* transform.rotation * v for a rotation about Y; the result is in fixed point *)
QuatMulVec(yaw, v) ==
    << v[1] * Cos(yaw) + v[3] * Sin(yaw),
       v[2] * SCALE,
       v[3] * Cos(yaw) - v[1] * Sin(yaw) >>

NormalizeOrForward(v) ==
    LET len == Sqrt(v[1] * v[1] + v[2] * v[2] + v[3] * v[3])
    IN IF len = 0 THEN <<0, 0, -SCALE>>
       ELSE << Div(v[1] * SCALE, len), Div(v[2] * SCALE, len), Div(v[3] * SCALE, len) >>

(* Vec3::normalize_or_zero of a fixed-point vector *)
NormalizeOrZero(v) ==
    LET len == Sqrt(v[1] * v[1] + v[2] * v[2] + v[3] * v[3])
    IN IF len = 0 THEN VEC_ZERO
       ELSE << Div(v[1] * SCALE, len), Div(v[2] * SCALE, len), Div(v[3] * SCALE, len) >>

DesiredVelocityUnnormalized(keys, yaw) ==
    LET r == QuatMulVec(yaw, RawDirection(keys))
        h == << r[1] * 1, r[2] * 0, r[3] * 1 >>
    IN << h[1] * TARGET_SPEED, h[2] * TARGET_SPEED, h[3] * TARGET_SPEED >>

DesiredVelocityWithLift(keys, yaw) ==
    LET r == QuatMulVec(yaw, RawDirection(keys))
        h == << r[1] * 1, r[2] * 0, r[3] * 1 >>
        n == NormalizeOrZero(h)
    IN << n[1] * TARGET_SPEED,
          IF "Space" \in keys THEN SCALE * TARGET_SPEED ELSE 0,
          n[3] * TARGET_SPEED >>

(* (transform.rotation * direction) * Vec3::new(1.0, 0.0, 1.0),
   then normalize_or_zero() * 10.0 *)
DesiredVelocity(keys, yaw) ==
    LET r == QuatMulVec(yaw, RawDirection(keys))
        h == << r[1] * 1, r[2] * 0, r[3] * 1 >>
        n == NormalizeOrZero(h)
    IN << n[1] * TARGET_SPEED, n[2] * TARGET_SPEED, n[3] * TARGET_SPEED >>

WalkBasisAccumulate(keys, yaw) ==
    [kind |-> "walk",
     desired_velocity |->
         IF basis.kind = "walk"
         THEN VAdd(basis.desired_velocity, DesiredVelocity(keys, yaw))
         ELSE DesiredVelocity(keys, yaw),
     float_height |-> FLOAT_HEIGHT]

(* TnuaBuiltinWalk { desired_velocity, float_height: 1.5, ..default() } *)
WalkBasis(keys, yaw) ==
    [kind |-> "walk", desired_velocity |-> DesiredVelocity(keys, yaw),
     float_height |-> FLOAT_HEIGHT]

(* TnuaBuiltinJump { height: 4.0, shorten_extra_gravity: 0.0, ..default() } *)
JumpAction ==
    [kind |-> "jump", height |-> JUMP_HEIGHT,
     shorten_extra_gravity |-> SHORTEN_EXTRA_GRAVITY]

JumpRequestedOnEdge == "Space" \in just_pressed

(* if keyboard.pressed(KeyCode::Space) *)
JumpRequested == "Space" \in pressed

---------------------------------------------------------------------------
(* Input-Capture Gate *)

FlipToFree(b) == FALSE

(* exit.0 = !exit.0 *)
Flip(b) == ~b

ToggleRequestedWhileHeld == "Escape" \in pressed

(* if keyboard.just_pressed(KeyCode::Escape) *)
ToggleRequested == "Escape" \in just_pressed

LockedIsChangedAlways == TRUE

LockedValueDiffers == locked # last_synced

(* if locked.is_changed(): MouseLocked was inserted or written since the
   last run of mouse_lock *)
LockedIsChanged == locked_changed

(* The (grab_mode, visible) pair mouse_lock assigns *)
CursorFor(l) == IF l THEN <<"Confined", TRUE>> ELSE <<"None", FALSE>>

Last(s) == s[Len(s)]

---------------------------------------------------------------------------
(* The start of a frame: input is forwarded, buffers rotate, keys refresh.
   Events<MouseMotion> is double-buffered: an event stays readable until two
   updates have passed, and the update at the start of a frame runs only when
   a fixed-timestep step of the frame before has signalled it. *)

Aged(s) == [i \in 1..Len(s) |-> [s[i] EXCEPT !.stale = TRUE]]

(* The window backend sends the MouseMotion events of the frame *)
SendMotion(b, ms) ==
    b \o [i \in 1..Len(ms) |-> [dx |-> ms[i][1], dy |-> ms[i][2], stale |-> FALSE]]

BeginFrame(keys, edges, ms, fixed) ==
    /\ frame < MaxFrames
    /\ frame = 0 \/ ran = Systems
    /\ LET a == Aged(events_a)
           b == SendMotion(Aged(events_b), ms)
       IN IF should_update
          THEN \* Events::update(): swap the buffers, clear the new one
               /\ events_a' = b
               /\ events_b' = <<>>
               /\ er_motion' = IF er_motion > Len(a) THEN er_motion - Len(a) ELSE 0
          ELSE /\ events_a' = a
               /\ events_b' = b
               /\ UNCHANGED er_motion
    \* keyboard_input_system: clear the edges, then apply the key events
    /\ pressed' = keys
    /\ just_pressed' = (keys \ pressed) \cup edges
    \* a fixed-timestep step in this frame signals the next event update
    /\ should_update' = fixed
    /\ basis_calls' = 0
    /\ jump' = NoAction
    /\ applied' = <<>>
    /\ cursor_writes' = 0
    /\ ran' = {}
    /\ frame' = frame + 1
    /\ UNCHANGED <<locked, locked_changed, grab_mode, cursor_visible, player_yaw,
                   player_camera, camera_rotation, basis, direction, toggles,
                   last_synced>>

---------------------------------------------------------------------------
(* The Update systems *)

CanRun(s) ==
    /\ frame > 0
    /\ s \notin ran
    /\ \A e \in Before : e[2] = s => e[1] \in ran

toggle_mouse_lock ==
    /\ CanRun("toggle_mouse_lock")
    /\ IF ToggleRequested
       THEN /\ locked' = Flip(locked)
            /\ locked_changed' = TRUE
            /\ LET t == [locked |-> locked, grab_mode |-> grab_mode,
                         cursor_visible |-> cursor_visible,
                         in_sync |-> ~locked_changed, synced |-> FALSE]
               IN toggles' = IF toggles # <<>> /\ Last(toggles).synced
                             THEN <<Last(toggles), t>>
                             ELSE <<t>>
       ELSE UNCHANGED <<locked, locked_changed, toggles>>
    /\ ran' = ran \cup {"toggle_mouse_lock"}
    /\ UNCHANGED <<grab_mode, cursor_visible, player_yaw, player_camera,
                   camera_rotation, pressed, just_pressed, events_a, events_b,
                   er_motion, basis, basis_calls, jump, direction, applied,
                   cursor_writes, last_synced, should_update, frame>>

mouse_lock ==
    /\ CanRun("mouse_lock")
    /\ IF LockedIsChanged
       THEN /\ grab_mode' = CursorFor(locked)[1]
            /\ cursor_visible' = CursorFor(locked)[2]
            /\ cursor_writes' = cursor_writes + 1
       ELSE UNCHANGED <<grab_mode, cursor_visible, cursor_writes>>
    /\ locked_changed' = FALSE
    /\ last_synced' = locked
    /\ toggles' = IF toggles = <<>> THEN toggles
                  ELSE [toggles EXCEPT ![Len(toggles)].synced = TRUE]
    /\ ran' = ran \cup {"mouse_lock"}
    /\ UNCHANGED <<locked, player_yaw, player_camera, camera_rotation, pressed,
                   just_pressed, events_a, events_b, er_motion, basis,
                   basis_calls, jump, direction, applied, should_update, frame>>

player_rotation ==
    /\ CanRun("player_rotation")
    /\ IF ~locked
       THEN UNCHANGED <<player_yaw, player_camera, camera_rotation, er_motion,
                        applied>>
       ELSE LET look == FoldMotion(Look, Unread)
            IN /\ player_yaw' = look.yaw
               /\ player_camera' = look.pitch
               /\ camera_rotation' = look.rotation
               /\ er_motion' = Len(events_a) + Len(events_b)
               /\ applied' = Unread
    /\ ran' = ran \cup {"player_rotation"}
    /\ UNCHANGED <<locked, locked_changed, grab_mode, cursor_visible, pressed,
                   just_pressed, events_a, events_b, basis, basis_calls, jump,
                   direction, toggles, cursor_writes, last_synced,
                   should_update, frame>>

update_player ==
    /\ CanRun("update_player")
    /\ direction' = RawDirection(pressed)
    /\ basis' = WalkBasis(pressed, player_yaw)
    /\ basis_calls' = basis_calls + 1
    /\ jump' = IF JumpRequested THEN JumpAction ELSE jump
    /\ ran' = ran \cup {"update_player"}
    /\ UNCHANGED <<locked, locked_changed, grab_mode, cursor_visible, player_yaw,
                   player_camera, camera_rotation, pressed, just_pressed,
                   events_a, events_b, er_motion, applied, toggles,
                   cursor_writes, last_synced, should_update, frame>>

---------------------------------------------------------------------------

Init ==
    /\ locked = TRUE
    /\ locked_changed = TRUE
    /\ grab_mode = "None"
    /\ cursor_visible = TRUE
    /\ player_yaw = 0
    /\ player_camera = 0
    /\ camera_rotation = 0
    /\ pressed = {}
    /\ just_pressed = {}
    /\ events_a = <<>>
    /\ events_b = <<>>
    /\ er_motion = 0
    /\ basis = NoBasis
    /\ basis_calls = 0
    /\ jump = NoAction
    /\ direction = VEC_ZERO
    /\ applied = <<>>
    /\ toggles = <<>>
    /\ cursor_writes = 0
    /\ last_synced = TRUE
    /\ should_update = FALSE
    /\ ran = {}
    /\ frame = 0

NewFrame == \E keys \in KeySets, edges \in EdgeSets, ms \in MotionSeqs,
                 fixed \in BOOLEAN :
                BeginFrame(keys, edges, ms, fixed)

Next ==
    \/ NewFrame
    \/ toggle_mouse_lock
    \/ mouse_lock
    \/ player_rotation
    \/ update_player

Spec == Init /\ [][Next]_vars

FrameDone == frame > 0 /\ ran = Systems

---------------------------------------------------------------------------
(* One pass of the Update schedule, from the frame-start states of a frame:
   every set of held keys, a sample of yaws and pitches, both capture modes *)

YawSamples == {-100 * SENS, 0, 100 * SENS}
PitchSamples == {-HALF_PI, 0, HALF_PI}

UpdateInit ==
    /\ locked \in BOOLEAN
    /\ locked_changed = FALSE
    /\ grab_mode = CursorFor(locked)[1]
    /\ cursor_visible = CursorFor(locked)[2]
    /\ player_yaw \in YawSamples
    /\ player_camera \in PitchSamples
    /\ camera_rotation = FromRotationX(player_camera)
    /\ pressed \in SUBSET Keys
    /\ just_pressed \in {{}, pressed}
    /\ events_a = <<>>
    /\ events_b \in {SendMotion(<<>>, ms) : ms \in MotionSeqs}
    /\ er_motion = 0
    /\ basis = NoBasis
    /\ basis_calls = 0
    /\ jump = NoAction
    /\ direction = VEC_ZERO
    /\ applied = <<>>
    /\ toggles = <<>>
    /\ cursor_writes = 0
    /\ last_synced = locked
    /\ should_update = FALSE
    /\ ran = {}
    /\ frame = MaxFrames

UpdateNext ==
    \/ toggle_mouse_lock
    \/ mouse_lock
    \/ player_rotation
    \/ update_player

UpdateSpec == UpdateInit /\ [][UpdateNext]_vars

---------------------------------------------------------------------------
(* Properties *)

Held(k) == IF k \in pressed THEN 1 ELSE 0

Motion(dx, dy) == [dx |-> dx, dy |-> dy, stale |-> FALSE]

(* C1: the pitch accumulator is within [-pi/2, +pi/2] in every reachable
   state, whatever motion events arrived and however the capture mode was
   toggled. *)
PitchInRange == -HALF_PI <= player_camera /\ player_camera <= HALF_PI

(* A motion that requests a pitch of -2.0 rad has been folded and the
   accumulator sits on the lower bound. *)
PitchInRangeWitness ==
    /\ "player_rotation" \in ran
    /\ \E i \in DOMAIN applied : applied[i].dy * SENS > HALF_PI
    /\ player_camera = -HALF_PI

(* C2, as stated: after two toggles, each followed by a run of mouse_lock,
   MouseLocked and the window cursor state are what they were before the
   first of the two toggles. *)
ToggleTwiceRestores ==
    (Len(toggles) = 2 /\ toggles[2].synced) =>
        /\ locked = toggles[1].locked
        /\ grab_mode = toggles[1].grab_mode
        /\ cursor_visible = toggles[1].cursor_visible

(* C2, amended: after two toggles, each followed by a run of mouse_lock,
   MouseLocked is what it was before the first of the two, whatever the
   cursor state was then; the window cursor state is restored too when
   mouse_lock had run since the last change of MouseLocked before the first
   toggle (the cursor state was the one mouse_lock assigns for the flag). *)
ToggleTwiceRestoresSynced ==
    (Len(toggles) = 2 /\ toggles[2].synced) =>
        /\ locked = toggles[1].locked
        /\ toggles[1].in_sync =>
              /\ grab_mode = toggles[1].grab_mode
              /\ cursor_visible = toggles[1].cursor_visible

(* Two toggles, each followed by mouse_lock, from the free mode with a
   synchronised cursor: the flag and the cursor state are back. *)
ToggleTwiceWitness ==
    /\ Len(toggles) = 2
    /\ toggles[2].synced
    /\ toggles[1].in_sync
    /\ ~toggles[1].locked
    /\ ~locked
    /\ <<grab_mode, cursor_visible>>
          = <<toggles[1].grab_mode, toggles[1].cursor_visible>>

(* C3: once update_player has run in a frame, player_rotation has run in that
   frame, and the walk basis submitted is computed from the yaw that includes
   all the motion events of the frame. *)
LocomotionAfterLook ==
    "update_player" \in ran =>
        /\ "player_rotation" \in ran
        /\ basis.kind = "walk"
        /\ basis.desired_velocity = DesiredVelocity(pressed, player_yaw)

(* update_player has run in a frame whose motion events turned the player
   while a movement key is held. *)
LocomotionAfterLookWitness ==
    /\ "update_player" \in ran
    /\ \E i \in DOMAIN applied : applied[i].dx # 0
    /\ player_yaw # 0
    /\ direction # VEC_ZERO
    /\ basis.desired_velocity = DesiredVelocity(pressed, player_yaw)
    /\ basis.desired_velocity # DesiredVelocity(pressed, 0)

(* C4: in a frame with a press edge of the toggle key, player_rotation runs
   only after toggle_mouse_lock has made its flip. *)
LookSeesToggle ==
    ("player_rotation" \in ran /\ ToggleRequested) => "toggle_mouse_lock" \in ran

(* C5: once mouse_lock has run since the last change of MouseLocked, captured
   means cursor hidden and confined, free means cursor visible and released. *)
CursorMatchesMode ==
    ~locked_changed =>
        IF locked
        THEN ~cursor_visible /\ grab_mode \in {"Locked", "Confined"}
        ELSE cursor_visible /\ grab_mode = "None"

(* C6: every motion event player_rotation folds was produced in the current
   frame: no event of an earlier frame is delivered later. *)
NoCarriedMotion == \A i \in DOMAIN applied : ~applied[i].stale

(* C7: a frame submits exactly one walk basis, and at the end of the frame the
   controller holds the basis computed from the keys held and the player yaw
   of that frame alone. *)
OneBasisPerFrame ==
    /\ basis_calls = IF "update_player" \in ran THEN 1 ELSE 0
    /\ FrameDone =>
        /\ basis_calls = 1
        /\ basis.kind = "walk"
        /\ basis.desired_velocity = DesiredVelocity(pressed, player_yaw)
        /\ basis.float_height = FLOAT_HEIGHT

(* A later frame ends in free mode with no key held, after a frame that
   submitted a non-zero velocity: the basis is submitted and is zero. *)
OneBasisPerFrameWitness ==
    /\ FrameDone
    /\ frame >= 2
    /\ ~locked
    /\ pressed = {}
    /\ basis_calls = 1
    /\ basis.desired_velocity = VEC_ZERO

(* C8: in a frame, a jump action (height 4.0, shorten_extra_gravity 0.0) is
   fed to the controller exactly if update_player has run and Space is held. *)
JumpIffSpaceHeld ==
    /\ (jump = JumpAction) <=> ("update_player" \in ran /\ "Space" \in pressed)
    /\ jump \in {JumpAction, NoAction}
    /\ JumpAction.height = 4 * SCALE
    /\ JumpAction.shorten_extra_gravity = 0

(* Space is held over from the frame before, in free mode, and the jump is
   fed again. *)
JumpIffSpaceHeldWitness ==
    /\ FrameDone
    /\ "Space" \in pressed
    /\ "Space" \notin just_pressed
    /\ ~locked
    /\ jump = JumpAction

(* C9: the raw direction update_player builds is (D - A, 0, S - W); with both
   keys of an opposite pair held, that axis is zero. *)
RawDirectionFormula ==
    "update_player" \in ran =>
        /\ direction = << Held("KeyD") - Held("KeyA"), 0,
                          Held("KeyS") - Held("KeyW") >>
        /\ {"KeyW", "KeyS"} \subseteq pressed => direction[3] = 0
        /\ {"KeyA", "KeyD"} \subseteq pressed => direction[1] = 0

(* Forward and backward are both held with one strafe key. *)
RawDirectionFormulaWitness ==
    /\ "update_player" \in ran
    /\ pressed = {"KeyW", "KeyS", "KeyD"}
    /\ direction = <<1, 0, 0>>

(* C10: from the current look state, the yaw after a motion event is the same
   for every dy and every pitch of the other run, and the pitch accumulator
   and camera rotation after it are the same for every dx and every yaw of
   the other run. *)
YawPitchIndependent ==
    /\ \A dx \in DX, dy1 \in DY, dy2 \in DY, p \in PitchSamples :
          ApplyMotion(Look, Motion(dx, dy1)).yaw
            = ApplyMotion([yaw |-> player_yaw, pitch |-> p, rotation |-> p],
                          Motion(dx, dy2)).yaw
    /\ \A dy \in DY, dx1 \in DX, dx2 \in DX, y \in YawSamples :
          LET one == ApplyMotion(Look, Motion(dx1, dy))
              two == ApplyMotion([Look EXCEPT !.yaw = y], Motion(dx2, dy))
          IN one.pitch = two.pitch /\ one.rotation = two.rotation

(* A motion with both dx and dy non-zero has been folded: the yaw moved by
   -dx * SENS, the pitch went to its bound. *)
YawPitchIndependentWitness ==
    /\ "player_rotation" \in ran
    /\ Len(applied) = 1
    /\ applied[1].dx = 100 /\ applied[1].dy = 400
    /\ player_yaw = -100 * SENS
    /\ player_camera = -HALF_PI

(* C11: when the raw direction is the zero vector, update_player still submits
   its one walk basis, and the desired velocity of it is exactly zero. *)
ZeroDirectionZeroVelocity ==
    ("update_player" \in ran /\ direction = VEC_ZERO) =>
        /\ basis_calls = 1
        /\ basis.kind = "walk"
        /\ basis.desired_velocity = VEC_ZERO
        /\ basis.float_height = FLOAT_HEIGHT

(* Forward and backward are held together, at a yaw that is not zero. *)
ZeroDirectionZeroVelocityWitness ==
    /\ "update_player" \in ran
    /\ pressed = {"KeyW", "KeyS"}
    /\ player_yaw # 0
    /\ direction = VEC_ZERO
    /\ basis.desired_velocity = VEC_ZERO

(* A step is the run of system s *)
Runs(s) == s \notin ran /\ s \in ran'

(* C12: MouseLocked starts true; it changes only in the run of
   toggle_mouse_lock of a frame in which Escape has a press edge, and that
   run flips it; a held Escape, other keys and pointer motion leave it. *)
CaptureModeOnlyOnEdge ==
    /\ locked = TRUE
    /\ [][ /\ locked' # locked =>
                (Runs("toggle_mouse_lock") /\ "Escape" \in just_pressed)
           /\ (Runs("toggle_mouse_lock") /\ "Escape" \in just_pressed) =>
                locked' = ~locked ]_vars

(* Escape is still held in the frame after its press edge, with other keys,
   toggle_mouse_lock has run again and the flag kept the flipped value. *)
CaptureModeOnlyOnEdgeWitness ==
    /\ frame >= 2
    /\ "toggle_mouse_lock" \in ran
    /\ "Escape" \in pressed
    /\ "Escape" \notin just_pressed
    /\ "KeyW" \in just_pressed
    /\ Len(toggles) = 1
    /\ locked = FALSE

(* C13, as stated: a run of mouse_lock writes the window cursor state exactly
   if the value of MouseLocked differs from the value at the previous run
   (at the first run: from the value at startup). *)
CursorWrittenOnValueChange ==
    [][ Runs("mouse_lock") =>
          ((cursor_writes' = cursor_writes + 1) <=> (locked # last_synced)) ]_vars

(* C13, amended: a run of mouse_lock writes the window cursor state exactly
   if it is the first run after startup or toggle_mouse_lock has flipped the
   flag since the previous run; it writes once, and nothing else writes. *)
CursorWrittenOnChangeTick ==
    [][ /\ Runs("mouse_lock") =>
             ((cursor_writes' = cursor_writes + 1)
                <=> (frame = 1 \/ (toggles # <<>> /\ ~Last(toggles).synced)))
        /\ cursor_writes' <= 1
        /\ (grab_mode' # grab_mode \/ cursor_visible' # cursor_visible
              \/ cursor_writes' > cursor_writes) => Runs("mouse_lock") ]_vars

(* The last frame: the toggle of an earlier frame has been synchronised (the
   cursor was written then), and this run of mouse_lock wrote nothing. *)
CursorWrittenWitness ==
    /\ frame = MaxFrames
    /\ "mouse_lock" \in ran
    /\ cursor_writes = 0
    /\ toggles # <<>>
    /\ Last(toggles).synced
    /\ grab_mode = "None"

(* C14: a run of player_rotation that observes the free mode, or that runs
   in a frame that produced no motion event, leaves the player yaw, the
   pitch accumulator and the camera rotation as they were. *)
LookIdleUnchanged ==
    [][ ( /\ Runs("player_rotation")
          /\ \/ ~locked
             \/ \A i \in DOMAIN (events_a \o events_b) :
                    (events_a \o events_b)[i].stale )
        => UNCHANGED <<player_yaw, player_camera, camera_rotation>> ]_vars

Min(a, b) == IF a < b THEN a ELSE b
Max(a, b) == IF a > b THEN a ELSE b

(* p := clamp(p - dy * SENS, -pi/2, +pi/2), event after event *)
RECURSIVE PitchLeftFold(_, _)
PitchLeftFold(p, evs) ==
    IF evs = <<>> THEN p
    ELSE PitchLeftFold(Max(-HALF_PI, Min(HALF_PI, p - Head(evs).dy * SENS)),
                       Tail(evs))

RECURSIVE SumDx(_)
SumDx(evs) == IF evs = <<>> THEN 0 ELSE Head(evs).dx + SumDx(Tail(evs))

(* C15: a run of player_rotation in captured mode leaves the pitch at the
   left fold of the clamped step over all the unread events in arrival
   order, and the yaw moved by every one of them. *)
PitchFoldedPerEvent ==
    [][ (Runs("player_rotation") /\ locked) =>
          /\ player_camera' = PitchLeftFold(player_camera, Unread)
          /\ player_yaw' = player_yaw - SumDx(Unread) * SENS ]_vars

(* An overshoot past the upper bound followed by an opposite event in one
   frame: the pitch ends one step below the bound, not at the clamped sum. *)
PitchFoldedPerEventWitness ==
    /\ frame = 1
    /\ "player_rotation" \in ran
    /\ Len(applied) = 2
    /\ applied[1].dy * SENS < -HALF_PI
    /\ applied[2].dy > 0
    /\ player_camera = HALF_PI - applied[2].dy * SENS
    /\ player_camera # Max(-HALF_PI, Min(HALF_PI,
                              0 - (applied[1].dy + applied[2].dy) * SENS))

(* C16: the camera's local rotation is the rotation about local X by the
   pitch accumulator, in every reachable state. *)
CameraRotationIsPitch == camera_rotation = player_camera

(* Two frames of motion, the last one clamped at the lower bound. *)
CameraRotationIsPitchWitness ==
    /\ frame >= 2
    /\ "player_rotation" \in ran
    /\ applied # <<>>
    /\ player_camera = -HALF_PI
    /\ camera_rotation = -HALF_PI
    /\ player_yaw = -2 * 100 * SENS

(* C17: the look state changes only in a run of player_rotation, and the
   desired velocity update_player submits has a zero Y component. *)
OnlyLookTurnsPlayer ==
    /\ [](basis.kind = "walk" => basis.desired_velocity[2] = 0)
    /\ [][ (\/ player_yaw' # player_yaw
            \/ player_camera' # player_camera
            \/ camera_rotation' # camera_rotation)
           => Runs("player_rotation") ]_vars

(* All the systems have run, the player was turned by the look controller
   and is walking with Space held. *)
OnlyLookTurnsPlayerWitness ==
    /\ ran = Systems
    /\ applied # <<>>
    /\ {"KeyW", "KeyA", "Space"} \subseteq pressed
    /\ basis.kind = "walk"
    /\ basis.desired_velocity[1] # 0
    /\ basis.desired_velocity[2] = 0

MoveKeys == {"KeyW", "KeyS", "KeyA", "KeyD"}

(* The speed of a submitted velocity, from its components before the
   scaling by the target speed *)
Speed(v) ==
    TARGET_SPEED * Sqrt((v[1] \div TARGET_SPEED) * (v[1] \div TARGET_SPEED)
                        + (v[3] \div TARGET_SPEED) * (v[3] \div TARGET_SPEED))

(* One part in a thousand of the target speed *)
SpeedTolerance == (TARGET_SPEED * SCALE) \div 1000

(* C18: at yaw 0, forward alone gives (0, 0, -10) and forward with right
   gives (7.07, 0, -7.07) to two decimals, with float height 1.5; for every
   key set the speed is 0 or 10. *)
VelocityAtYawZero ==
    ("update_player" \in ran) =>
        LET v == basis.desired_velocity
        IN /\ basis.float_height = (3 * SCALE) \div 2
           /\ (player_yaw = 0 /\ pressed \cap MoveKeys = {"KeyW"}) =>
                 v = <<0, 0, -10 * SCALE>>
           /\ (player_yaw = 0 /\ pressed \cap MoveKeys = {"KeyW", "KeyD"}) =>
                 /\ Div(v[1] * 100, SCALE) = 707
                 /\ v[2] = 0
                 /\ Div(v[3] * 100, SCALE) = -707
           /\ \/ v = VEC_ZERO
              \/ /\ Speed(v) >= 10 * SCALE - SpeedTolerance
                 /\ Speed(v) <= 10 * SCALE + SpeedTolerance

(* Forward and right are held at yaw 0. *)
VelocityAtYawZeroWitness ==
    /\ "update_player" \in ran
    /\ player_yaw = 0
    /\ pressed = {"KeyW", "KeyD"}
    /\ Div(basis.desired_velocity[1] * 100, SCALE) = 707

(* C19: at the end of a frame without a press edge of Escape, the window
   cursor state is the pair mouse_lock assigns for the current MouseLocked. *)
CursorInStepAfterQuietFrame ==
    (FrameDone /\ "Escape" \notin just_pressed) =>
        <<grab_mode, cursor_visible>> = CursorFor(locked)

(* The frame after a toggle that ran after mouse_lock: the cursor was stale
   at the end of that frame and this frame's mouse_lock has written it. *)
CursorInStepWitness ==
    /\ FrameDone
    /\ "Escape" \notin just_pressed
    /\ frame = 2
    /\ cursor_writes = 1
    /\ ~locked
    /\ <<grab_mode, cursor_visible>> = CursorFor(FALSE)

====
